---- MODULE Spec2Model ----
(***************************************************************************)
(* A model of watermark.py: one run of main() over a filesystem, and       *)
(* direct calls of create_watermark, duplicate_watermark and               *)
(* ensure_new_file.                                                        *)
(*                                                                         *)
(* The filesystem is a finite map from paths to entries: regular files and *)
(* symbolic links.  A path is a parent directory and a file name; the name *)
(* is kept as a sequence of pieces in which every "." is a piece of its    *)
(* own, so that stem and suffix are split off the name as pathlib splits   *)
(* them, each time a path is built.  A PDF file is a sequence of pages;    *)
(* the PDF library is the capability interface {page count, get page,      *)
(* merge page, append page, save}.  String formatting (f-strings,          *)
(* str + str) is string concatenation, so that two names are equal exactly *)
(* when the code would produce the same file name.                         *)
(***************************************************************************)
EXTENDS Integers, Sequences, FiniteSets, TLC

VARIABLES
    fs,                      \* the filesystem: path -> entry
    fs0,                     \* history: the filesystem before the run
    watermark_text,          \* args.watermark_text, a sequence of characters
    input_files,             \* args.input_files (-f), a sequence of paths
    exclude_list,            \* args.exclude (-x), a set of file names
    file_list,               \* main: the selected inputs
    watermark_file_path,     \* main: the path create_watermark returned
    pc,                      \* the position of the run
    idx,                     \* main: position of the for loop in file_list
    new_file_path,           \* add_watermark: the desired, then resolved path
    page_count,              \* add_watermark: pages of the input
    tmp_watermark_file_path, \* add_watermark: the replicated watermark
    output,                  \* add_watermark: pages of the PdfFileWriter
    error,                   \* the exception that ended the run, "" if none
    log,                     \* the lines logging.info wrote
    trace,                   \* history: the steps taken, per input
    tested,                  \* history: the paths ensure_new_file tested last
    cleaned,                 \* history: the OS has removed the watermark file
    output_file_path         \* a direct call's output_file_path, NoPath for None

vars == <<fs, fs0, watermark_text, input_files, exclude_list, file_list,
          watermark_file_path, pc, idx, new_file_path, page_count,
          tmp_watermark_file_path, output, error, log, trace, tested, cleaned,
          output_file_path>>

-----------------------------------------------------------------------------
(* Program constant and bounds *)

MAX_TEXT_LENGTH == 28

\* longest -f list
MaxFiles == 2
\* most entries that exist at candidate output paths before the run
MaxPre == 2
\* most pages of a watermark document handed to duplicate_watermark directly
MaxWmPages == 2
\* largest page_count handed to duplicate_watermark directly
MaxCount == 3
\* most entries of the directory ensure_new_file is called in directly
MaxEntries == 3

-----------------------------------------------------------------------------
(* Strings *)

Digit == <<"0", "1", "2", "3", "4", "5", "6", "7", "8", "9">>

RECURSIVE IntStr(_)
\* str(n) of a natural number, as the f-string of ensure_new_file formats it
IntStr(n) == IF n < 10 THEN Digit[n + 1]
             ELSE IntStr(n \div 10) \o Digit[(n % 10) + 1]

RECURSIVE Join(_)
\* the str made of the pieces of the sequence s
Join(s) == IF s = <<>> THEN "" ELSE Head(s) \o Join(Tail(s))

Rep(c, n) == [j \in 1..n |-> c]

-----------------------------------------------------------------------------
(* Paths (pathlib.Path) *)

RECURSIVE Norm(_)
\* the pieces of the string Join(s): every "." a piece of its own, the
\* characters between two dots one piece, no empty piece.  Two sequences of
\* pieces spell the same string exactly when Norm makes them equal.
Norm(s) ==
    IF s = <<>> THEN <<>>
    ELSE IF s[1] = "" THEN Norm(Tail(s))
    ELSE IF Len(s) = 1 THEN s
    ELSE IF s[1] # "." /\ s[2] # "."
         THEN Norm(<<s[1] \o s[2]>> \o Tail(Tail(s)))
         ELSE <<s[1]>> \o Norm(Tail(s))

\* Path(parent, name): the name is parsed anew
Path(parent, name) == [parent |-> parent, name |-> Norm(name)]

NoPath == Path("", <<>>)

\* name.rfind("."), counted in pieces: 0 if the name has no "."
LastDot(name) ==
    IF \E j \in 1..Len(name) : name[j] = "."
    THEN CHOOSE j \in 1..Len(name) :
           /\ name[j] = "."
           /\ \A m \in (j + 1)..Len(name) : name[m] # "."
    ELSE 0

\* pathlib's condition 0 < i < len(name) - 1 on i = name.rfind("."): the
\* last dot is neither the first nor the last character of the name
HasSuffix(name) == LastDot(name) > 1 /\ LastDot(name) < Len(name)

\* Path.suffix, in pieces
Suffix(p) == IF HasSuffix(p.name)
             THEN SubSeq(p.name, LastDot(p.name), Len(p.name))
             ELSE <<>>

\* Path.stem, in pieces
Stem(p) == IF HasSuffix(p.name)
           THEN SubSeq(p.name, 1, LastDot(p.name) - 1)
           ELSE p.name

\* Path.name
Name(p) == Join(p.name)

\* str(path)
PathStr(p) == p.parent \o "/" \o Name(p)

\* the path of the file stem.pdf in directory parent, stem without a "."
PdfPath(parent, stem) == Path(parent, <<stem, ".", "pdf">>)

\* the path a symbolic link leads to, the path itself if it is no link; a
\* link's target is not a link
Real(f, p) == IF p \in DOMAIN f /\ f[p].kind = "link" THEN f[p].target ELSE p

\* Path.exists(): follows a symbolic link, so it is False for a link whose
\* target does not exist although there is an entry at the path
Exists(f, p) == Real(f, p) \in DOMAIN f

\* the file open(p) reads
Read(f, p) == f[Real(f, p)]

\* Path.cwd()
cwd == "d"

\* tempfile.gettempdir()
TempDir == "tmp"

-----------------------------------------------------------------------------
(* Files and pages *)

\* a page: where it comes from, whether the PDF library can merge it, and the
\* watermark texts composited onto it, in the order they were merged
Page(doc, no, ok) == [doc |-> doc, no |-> no, ok |-> ok, marks |-> <<>>]

\* a file the PDF library can read, one it cannot, and the empty file
\* mkstemp creates (which it cannot read either)
Pdf(pages) == [kind |-> "pdf", pages |-> pages]
Other == [kind |-> "other", pages |-> <<>>]
Empty == [kind |-> "empty", pages |-> <<>>]

\* a symbolic link to target
Link(target) == [kind |-> "link", pages |-> <<>>, target |-> target]

\* open(path, "wb") and write: creates the file or replaces its content;
\* through a symbolic link, the file at the link's target
Write(f, p, file) == (Real(f, p) :> file) @@ f

\* the page canvas.Canvas draws for text (lines 39-44)
WatermarkPage(text) == [doc |-> "watermark", no |-> 1, ok |-> TRUE, marks |-> <<Join(text)>>]

\* PageObject.merge_page: the watermark's content is composited onto the page
merge_page(page, wpage) == [page EXCEPT !.marks = @ \o wpage.marks]

-----------------------------------------------------------------------------
(* Temporary files *)

\* the random part of a temporary name: mkstemp's random characters and the
\* first 8 hex digits of uuid4, f"_{unique_id}" (lines 34-36, 63-65)
TempToken(j) == "r" \o IntStr(j) \o "_" \o "u" \o IntStr(j)

\* the temporary path with prefix (given in pieces) and random part j
TempPath(prefix, j) == Path(TempDir, prefix \o <<TempToken(j), ".", "pdf">>)

RECURSIVE FreeTempPaths(_, _, _, _)
\* the first n paths TempPath(prefix, j), TempPath(prefix, j + 1), ... at
\* which there is no entry: however many temporary files exist, there are
\* new names
FreeTempPaths(f, prefix, j, n) ==
    IF n = 0 THEN {}
    ELSE IF TempPath(prefix, j) \in DOMAIN f THEN FreeTempPaths(f, prefix, j + 1, n)
    ELSE {TempPath(prefix, j)} \cup FreeTempPaths(f, prefix, j + 1, n - 1)

\* tempfile.mkstemp(suffix=f"_{unique_id}.pdf", prefix=prefix, dir=gettempdir()):
\* the paths it can create, a random new name (O_EXCL: never one at which
\* there is an entry); two names stand for the random choice.  prefix is
\* given in pieces; a piece "/" makes the name a path into a directory below
\* the temporary directory, which does not exist: os.open fails, no path.
mkstemp(f, prefix) ==
    IF \E j \in 1..Len(prefix) : prefix[j] = "/" THEN {}
    ELSE FreeTempPaths(f, prefix, 1, 2)

\* line 48; with_suffix replaces the suffix, or appends to a name without one
correct_pdf_path(file_path) ==
    IF Suffix(file_path) = <<".", "pdf">> THEN file_path
    ELSE Path(file_path.parent, Stem(file_path) \o <<".", "pdf">>)

-----------------------------------------------------------------------------
(* create_watermark *)

\* lines 31-37: the outcomes of the assertion, mkstemp (only when no
\* output_file_path is given, NoPath) and correct_pdf_path: the exception
\* raised ("" if none), the filesystem, with the empty file if mkstemp
\* created one, and output_file_path
create_watermark_path(f, text, given) ==
    IF ~(Len(text) < MAX_TEXT_LENGTH)
    THEN {[err |-> "AssertionError", fs |-> f, path |-> NoPath]}
    ELSE IF given # NoPath
    THEN {[err |-> "", fs |-> f, path |-> correct_pdf_path(given)]}
    ELSE IF mkstemp(f, <<"watermark_">> \o text) = {}
    THEN {[err |-> "FileNotFoundError", fs |-> f, path |-> NoPath]}
    ELSE {[err |-> "", fs |-> Write(f, p, Empty), path |-> correct_pdf_path(p)] :
             p \in mkstemp(f, <<"watermark_">> \o text)}

\* lines 39-44: the canvas is saved to the path of line 37, the file mkstemp
\* created or the path that was given
create_watermark_save(f, text, path) ==
    Write(f, path, Pdf(<<WatermarkPage(text)>>))

-----------------------------------------------------------------------------
(* duplicate_watermark *)

\* the pages of the PdfFileWriter after the loop of lines 71-73
DuplicatedPages(watermark_pages, count) ==
    [j \in 1..count |-> watermark_pages[1]]

\* lines 62-66: mkstemp (only when no output_file_path is given, NoPath) and
\* correct_pdf_path: the filesystem, with the empty file if mkstemp created
\* one, and output_file_path
duplicate_watermark_path(f, given) ==
    IF given # NoPath
    THEN {[fs |-> f, path |-> correct_pdf_path(given)]}
    ELSE {[fs |-> Write(f, p, Empty), path |-> correct_pdf_path(p)] :
            p \in mkstemp(f, <<"watermark_tmp">>)}

\* lines 68-75: the outcomes of reading the watermark, taking its first page
\* and writing the copies to the path of line 66; an exception of lines
\* 69-71 leaves the filesystem as it is.  When that path is the watermark's
\* own, line 74 empties the file the reader of line 70 still reads from:
\* with copies to write, the PDF library either raises, the file left
\* empty, or writes them from what it has read before.
duplicate_watermark_write(f, watermark_path, count, path) ==
    IF ~Exists(f, watermark_path)
    THEN {[err |-> "FileNotFoundError", fs |-> f]}
    ELSE IF Read(f, watermark_path).kind # "pdf"
    THEN {[err |-> "PdfReadError", fs |-> f]}
    ELSE IF Len(Read(f, watermark_path).pages) = 0
    THEN {[err |-> "IndexError", fs |-> f]}
    ELSE {[err |-> "",
           fs |-> Write(f, path,
                        Pdf(DuplicatedPages(Read(f, watermark_path).pages, count)))]}
         \cup IF Real(f, path) = Real(f, watermark_path) /\ count > 0
              THEN {[err |-> "PdfReadError", fs |-> Write(f, path, Empty)]}
              ELSE {}

-----------------------------------------------------------------------------
(* ensure_new_file *)

\* a variant whose first candidate is the tested path itself
WithIndex_stale(file_path, index) ==
    IF index = 1 THEN file_path
    ELSE Path(file_path.parent,
              Stem(file_path) \o <<"_" \o IntStr(index)>> \o Suffix(file_path))

\* line 89: Path(file_path.parent, f"{file_path.stem}_{index}{file_path.suffix}");
\* stem and suffix of the new path are those of the new name
WithIndex(file_path, index) ==
    Path(file_path.parent,
         Stem(file_path) \o <<"_" \o IntStr(index)>> \o Suffix(file_path))

RECURSIVE EnsureLoop(_, _, _, _)
\* the while loop of lines 88-90; seen are the paths tested so far
EnsureLoop(f, file_path, index, seen) ==
    IF Exists(f, file_path)
    THEN EnsureLoop(f, WithIndex(file_path, index), index + 1, Append(seen, file_path))
    ELSE [path |-> file_path, tested |-> Append(seen, file_path)]

\* a variant that returns the path without testing it
ensure_new_file_unchecked(f, file_path) ==
    [path |-> file_path, tested |-> <<file_path>>]

\* ensure_new_file(file_path): the path returned, and the paths whose
\* existence was tested, in order
ensure_new_file(f, file_path) == EnsureLoop(f, file_path, 1, <<>>)

\* line 103: Path(input_file_path.parent, f"{input_file_path.stem}_watermarked.pdf")
DesiredPath(input_file_path) ==
    Path(input_file_path.parent,
         Stem(input_file_path) \o <<"_watermarked", ".", "pdf">>)

-----------------------------------------------------------------------------
(* Input selection, main lines 148-154 *)

\* a variant that compares the whole path with the -x names
Excluded_by_path(p, excl) == PathStr(p) \in excl

\* f.name not in exclude_list
Excluded(p, excl) == Name(p) \in excl

\* the file name matches the pattern "*.pdf": it ends with ".pdf" (the name
\* ".pdf" itself included, which has no suffix for pathlib)
MatchesPdf(p) ==
    /\ Len(p.name) >= 2
    /\ p.name[Len(p.name) - 1] = "."
    /\ p.name[Len(p.name)] = "pdf"

\* cwd.glob("*.pdf"): the entries of the current directory whose name
\* matches, symbolic links included
Glob(f) == {p \in DOMAIN f : p.parent = cwd /\ MatchesPdf(p)}

\* the orders in which a directory scan can yield the set S
Orders(S) == {s \in [1..Cardinality(S) -> S] :
                \A a, b \in 1..Cardinality(S) : a # b => s[a] # s[b]}

RECURSIVE Filter(_, _)
\* [f for f in files if Path(f).name not in exclude_list]
Filter(files, excl) ==
    IF files = <<>> THEN <<>>
    ELSE IF Excluded(Head(files), excl) THEN Filter(Tail(files), excl)
    ELSE <<Head(files)>> \o Filter(Tail(files), excl)

\* the values file_list can take
Select(f, files, excl) ==
    IF files = <<>>
    THEN {Filter(s, excl) : s \in Orders(Glob(f))}
    ELSE {Filter(files, excl)}

-----------------------------------------------------------------------------
(* The inputs of a run *)

OldPage == [doc |-> "old", no |-> 1, ok |-> TRUE, marks |-> <<"OLD">>]

\* the files that exist before every run: inputs of 2, 0 and 1 pages, an
\* input whose second page cannot be merged, a file that is no PDF, and a
\* file of the current directory whose name does not match "*.pdf"
BaseFiles ==
    (PdfPath("d", "a") :> Pdf(<<Page("d/a", 1, TRUE), Page("d/a", 2, TRUE)>>)) @@
    (PdfPath("d", "z") :> Pdf(<<>>)) @@
    (PdfPath("e", "a") :> Pdf(<<Page("e/a", 1, TRUE)>>)) @@
    (PdfPath("e", "c") :> Pdf(<<Page("e/c", 1, TRUE), Page("e/c", 2, FALSE)>>)) @@
    (PdfPath("e", "g") :> Other) @@
    (Path("d", <<"n", ".", "txt">>) :> Other)

\* paths at which a file may exist before the run: earlier outputs, and the
\* file named ".pdf" in the current directory
PrePaths ==
    {Path("d", <<".", "pdf">>),
     PdfPath("d", "a_watermarked"),
     PdfPath("e", "a_watermarked"),
     PdfPath("e", "a_watermarked_1"),
     PdfPath("e", "a_watermarked_2"),
     PdfPath("e", "a_watermarked_1_2")}

\* the path at which, instead of a file, a symbolic link may exist before the
\* run, and the path the link leads to, at which nothing exists
LinkPaths == {PdfPath("e", "a_watermarked")}
LinkTarget == PdfPath("e", "t")

\* the paths -f may name; e/m.pdf does not exist
Candidates == (DOMAIN BaseFiles \ {Path("d", <<"n", ".", "txt">>)})
              \cup {PdfPath("e", "m")}

\* the -x lists; "e/a.pdf" is a path, not a file name
ExcludeLists == {{}, {"a.pdf"}, {"c.pdf", "e/a.pdf"}}

\* the watermark texts: around the length limit, and one with a path separator
Texts == {Rep("A", n) : n \in {MAX_TEXT_LENGTH - 1, MAX_TEXT_LENGTH,
                               MAX_TEXT_LENGTH + 1}}
         \cup {<<"N", "/", "A">>}

SeqsUpTo(S, n) == UNION {[1..m -> S] : m \in 0..n}

Init ==
    /\ \E pre \in SUBSET PrePaths, lnk \in SUBSET LinkPaths :
          /\ pre \cap lnk = {}
          /\ Cardinality(pre \cup lnk) <= MaxPre
          /\ fs = [p \in lnk |-> Link(LinkTarget)]
                  @@ [p \in pre |-> Pdf(<<OldPage>>)] @@ BaseFiles
    /\ fs0 = fs
    /\ watermark_text \in Texts
    /\ input_files \in SeqsUpTo(Candidates, MaxFiles)
    /\ exclude_list \in ExcludeLists
    /\ file_list = <<>>
    /\ watermark_file_path = NoPath
    /\ pc = "parse"
    /\ idx = 1
    /\ new_file_path = NoPath
    /\ page_count = 0
    /\ tmp_watermark_file_path = NoPath
    /\ output = <<>>
    /\ error = ""
    /\ log = <<>>
    /\ trace = <<>>
    /\ tested = <<>>
    /\ cleaned = FALSE
    /\ output_file_path = NoPath

-----------------------------------------------------------------------------
(* main *)

\* a variant that opens the input before it resolves the output path
StepOrder_open_first == <<"open", "resolve", "replicate", "merge", "write">>

\* the steps of add_watermark in the order of its statements (lines 102-119)
StepOrder == <<"resolve", "open", "replicate", "merge", "write">>

\* the step that follows step in add_watermark
NextStep(step) ==
    LET j == CHOOSE n \in 1..Len(StepOrder) : StepOrder[n] = step
    IN  StepOrder[j + 1]

\* a variant with a try/except around add_watermark: the loop goes on
OnException_continue(k) == [pc |-> "loop", idx |-> k + 1]

\* an exception raised while input k is processed: neither add_watermark nor
\* the for loop of main catches it (lines 158-162), the run ends
OnException(k) == [pc |-> "error", idx |-> k]

Event(step) == [k |-> idx, step |-> step, file |-> file_list[idx]]

\* lines 147-154
ParseArgs ==
    /\ pc = "parse"
    /\ file_list' \in Select(fs, input_files, exclude_list)
    /\ pc' = "create"
    /\ UNCHANGED <<fs, fs0, watermark_text, input_files, exclude_list,
                   watermark_file_path, idx, new_file_path, page_count,
                   tmp_watermark_file_path, output, error, log, trace, tested,
                   cleaned, output_file_path>>

\* line 155, create_watermark lines 31-37: mkstemp has created an empty file
CreateWatermarkPath ==
    /\ pc = "create"
    /\ \E r \in create_watermark_path(fs, watermark_text, NoPath) :
          /\ r.err = ""
          /\ fs' = r.fs
          /\ watermark_file_path' = r.path
    /\ pc' = "save"
    /\ UNCHANGED <<fs0, watermark_text, input_files, exclude_list, file_list,
                   idx, new_file_path, page_count, tmp_watermark_file_path,
                   output, error, log, trace, tested, cleaned, output_file_path>>

\* line 155, create_watermark raises at line 31 or 35
CreateWatermarkFail ==
    /\ pc = "create"
    /\ \E r \in create_watermark_path(fs, watermark_text, NoPath) :
          /\ r.err # ""
          /\ fs' = r.fs
          /\ error' = r.err
    /\ pc' = "error"
    /\ UNCHANGED <<fs0, watermark_text, input_files, exclude_list, file_list,
                   watermark_file_path, idx, new_file_path, page_count,
                   tmp_watermark_file_path, output, log, trace, tested, cleaned, output_file_path>>

\* line 155, create_watermark lines 39-45: the page is saved and the path
\* returned
CreateWatermarkSave ==
    /\ pc = "save"
    /\ fs' = create_watermark_save(fs, watermark_text, watermark_file_path)
    /\ pc' = "loop"
    /\ UNCHANGED <<fs0, watermark_text, input_files, exclude_list, file_list,
                   watermark_file_path, idx, new_file_path, page_count,
                   tmp_watermark_file_path, output, error, log, trace, tested,
                   cleaned, output_file_path>>

\* the environment: the watermark file, which the program leaves in the
\* temporary directory, is removed by the operating system's cleanup of that
\* directory; taken here between two inputs
TempCleanup ==
    /\ pc = "loop"
    /\ ~cleaned
    /\ watermark_file_path \in DOMAIN fs
    /\ fs' = [p \in DOMAIN fs \ {watermark_file_path} |-> fs[p]]
    /\ cleaned' = TRUE
    /\ UNCHANGED <<fs0, watermark_text, input_files, exclude_list, file_list,
                   watermark_file_path, pc, idx, new_file_path, page_count,
                   tmp_watermark_file_path, output, error, log, trace, tested, output_file_path>>

\* lines 158-159, the loop takes the next input
LoopNext ==
    /\ pc = "loop"
    /\ idx <= Len(file_list)
    /\ log' = Append(log, "Processing file: " \o PathStr(file_list[idx]))
    /\ pc' = StepOrder[1]
    /\ UNCHANGED <<fs, fs0, watermark_text, input_files, exclude_list, file_list,
                   watermark_file_path, idx, new_file_path, page_count,
                   tmp_watermark_file_path, output, error, trace, tested,
                   cleaned, output_file_path>>

\* line 162, the loop is over
AllDone ==
    /\ pc = "loop"
    /\ idx > Len(file_list)
    /\ log' = Append(log, "All done!")
    /\ pc' = "done"
    /\ UNCHANGED <<fs, fs0, watermark_text, input_files, exclude_list, file_list,
                   watermark_file_path, idx, new_file_path, page_count,
                   tmp_watermark_file_path, output, error, trace, tested,
                   cleaned, output_file_path>>

-----------------------------------------------------------------------------
(* add_watermark *)

\* lines 102-104
Resolve ==
    /\ pc = "resolve"
    /\ LET r == ensure_new_file(fs, DesiredPath(file_list[idx]))
       IN  /\ new_file_path' = r.path
           /\ tested' = r.tested
    /\ trace' = Append(trace, Event("resolve"))
    /\ pc' = NextStep("resolve")
    /\ UNCHANGED <<fs, fs0, watermark_text, input_files, exclude_list, file_list,
                   watermark_file_path, idx, page_count,
                   tmp_watermark_file_path, output, error, log, cleaned, output_file_path>>

\* open(input_file_path, "rb") and PdfFileReader can read it
Readable(f, p) == Exists(f, p) /\ Read(f, p).kind = "pdf"

\* lines 106-108
OpenInput ==
    /\ pc = "open"
    /\ Readable(fs, file_list[idx])
    /\ page_count' = Len(Read(fs, file_list[idx]).pages)
    /\ trace' = Append(trace, Event("open"))
    /\ pc' = NextStep("open")
    /\ UNCHANGED <<fs, fs0, watermark_text, input_files, exclude_list, file_list,
                   watermark_file_path, idx, new_file_path,
                   tmp_watermark_file_path, output, error, log, tested, cleaned, output_file_path>>

\* lines 106-108, the input is missing or is no PDF
OpenInputFail ==
    /\ pc = "open"
    /\ ~Readable(fs, file_list[idx])
    /\ error' = IF Exists(fs, file_list[idx]) THEN "PdfReadError"
                ELSE "FileNotFoundError"
    /\ trace' = Append(trace, Event("open"))
    /\ pc' = OnException(idx).pc
    /\ idx' = OnException(idx).idx
    /\ UNCHANGED <<fs, fs0, watermark_text, input_files, exclude_list, file_list,
                   watermark_file_path, new_file_path, page_count,
                   tmp_watermark_file_path, output, log, tested, cleaned, output_file_path>>

\* line 109, duplicate_watermark lines 62-66: mkstemp has created an empty
\* file
ReplicatePath ==
    /\ pc = "replicate"
    /\ \E r \in duplicate_watermark_path(fs, NoPath) :
          /\ fs' = r.fs
          /\ tmp_watermark_file_path' = r.path
    /\ trace' = Append(trace, Event("replicate"))
    /\ pc' = "duplicate"
    /\ UNCHANGED <<fs0, watermark_text, input_files, exclude_list, file_list,
                   watermark_file_path, idx, new_file_path, page_count,
                   output, error, log, tested, cleaned, output_file_path>>

\* line 109, duplicate_watermark lines 68-76: the copies are written and the
\* path returned
Replicate ==
    /\ pc = "duplicate"
    /\ \E r \in duplicate_watermark_write(fs, watermark_file_path, page_count,
                                           tmp_watermark_file_path) :
          /\ r.err = ""
          /\ fs' = r.fs
    /\ pc' = NextStep("replicate")
    /\ UNCHANGED <<fs0, watermark_text, input_files, exclude_list, file_list,
                   watermark_file_path, idx, new_file_path, page_count,
                   tmp_watermark_file_path, output, error, log, trace, tested,
                   cleaned, output_file_path>>

\* line 109, duplicate_watermark raises at lines 69-71: add_watermark does
\* not catch it
ReplicateFail ==
    /\ pc = "duplicate"
    /\ \E r \in duplicate_watermark_write(fs, watermark_file_path, page_count,
                                           tmp_watermark_file_path) :
          /\ r.err # ""
          /\ fs' = r.fs
          /\ error' = r.err
    /\ pc' = OnException(idx).pc
    /\ idx' = OnException(idx).idx
    /\ UNCHANGED <<fs0, watermark_text, input_files, exclude_list, file_list,
                   watermark_file_path, new_file_path, page_count,
                   tmp_watermark_file_path, output, log, trace, tested, cleaned, output_file_path>>

\* every page the loop of lines 113-116 reads can be merged
Mergeable(pages, count) == \A j \in 1..count : pages[j].ok

\* a variant whose loop stops one page early, range(page_count - 1)
MergedPages_short(pages, wpages, count) ==
    [j \in 1..(count - 1) |-> merge_page(pages[j], wpages[j])]

\* the pages of output after the loop of lines 113-116
MergedPages(pages, wpages, count) ==
    [j \in 1..count |-> merge_page(pages[j], wpages[j])]

\* lines 110-116
Merge ==
    /\ pc = "merge"
    /\ Mergeable(Read(fs, file_list[idx]).pages, page_count)
    /\ output' = MergedPages(Read(fs, file_list[idx]).pages,
                             Read(fs, tmp_watermark_file_path).pages, page_count)
    /\ trace' = Append(trace, Event("merge"))
    /\ pc' = NextStep("merge")
    /\ UNCHANGED <<fs, fs0, watermark_text, input_files, exclude_list, file_list,
                   watermark_file_path, idx, new_file_path, page_count,
                   tmp_watermark_file_path, error, log, tested, cleaned, output_file_path>>

\* lines 110-116, merge_page raises on a page
MergeFail ==
    /\ pc = "merge"
    /\ ~Mergeable(Read(fs, file_list[idx]).pages, page_count)
    /\ error' = "PdfReadError"
    /\ trace' = Append(trace, Event("merge"))
    /\ pc' = OnException(idx).pc
    /\ idx' = OnException(idx).idx
    /\ UNCHANGED <<fs, fs0, watermark_text, input_files, exclude_list, file_list,
                   watermark_file_path, new_file_path, page_count,
                   tmp_watermark_file_path, output, log, tested, cleaned, output_file_path>>

\* lines 118-119, and the return to the loop of main
WriteOutput ==
    /\ pc = "write"
    /\ fs' = Write(fs, new_file_path, Pdf(output))
    /\ trace' = Append(trace, Event("write"))
    /\ idx' = idx + 1
    /\ pc' = "loop"
    /\ UNCHANGED <<fs0, watermark_text, input_files, exclude_list, file_list,
                   watermark_file_path, new_file_path, page_count,
                   tmp_watermark_file_path, output, error, log, tested, cleaned, output_file_path>>

Next ==
    \/ ParseArgs
    \/ CreateWatermarkPath
    \/ CreateWatermarkFail
    \/ CreateWatermarkSave
    \/ TempCleanup
    \/ LoopNext
    \/ AllDone
    \/ Resolve
    \/ OpenInput
    \/ OpenInputFail
    \/ ReplicatePath
    \/ Replicate
    \/ ReplicateFail
    \/ Merge
    \/ MergeFail
    \/ WriteOutput

Spec == Init /\ [][Next]_vars

-----------------------------------------------------------------------------
(* duplicate_watermark called directly, on watermark documents of any       *)
(* length, with and without an output_file_path                             *)

WmFixture == PdfPath(TempDir, "watermark_fixture")

\* a file that exists before the call
OldFile == PdfPath("e", "old")

\* the output_file_path arguments: None, a path without the suffix ".pdf" at
\* which nothing exists, the path of an existing file, and the path of the
\* watermark itself
GivenPaths == {NoPath, Path("e", <<"out", ".", "txt">>), OldFile, WmFixture}

WmPages == {[doc |-> "watermark", no |-> n, ok |-> TRUE, marks |-> <<m>>] :
              n \in {1}, m \in {"X", "Y", "Z"}}

InitDup ==
    /\ \E pages \in SeqsUpTo(WmPages, MaxWmPages) :
          fs = (WmFixture :> Pdf(pages)) @@ (OldFile :> Pdf(<<OldPage>>))
    /\ fs0 = fs
    /\ watermark_text = <<>>
    /\ input_files = <<>>
    /\ exclude_list = {}
    /\ file_list = <<>>
    /\ watermark_file_path = WmFixture
    /\ pc = "dup_call"
    /\ idx = 1
    /\ new_file_path = NoPath
    /\ page_count \in 0..MaxCount
    /\ tmp_watermark_file_path = NoPath
    /\ output = <<>>
    /\ error = ""
    /\ log = <<>>
    /\ trace = <<>>
    /\ tested = <<>>
    /\ cleaned = FALSE
    /\ output_file_path \in GivenPaths

\* duplicate_watermark(watermark_file_path, page_count, output_file_path),
\* lines 62-66
DupPath ==
    /\ pc = "dup_call"
    /\ \E r \in duplicate_watermark_path(fs, output_file_path) :
          /\ fs' = r.fs
          /\ tmp_watermark_file_path' = r.path
    /\ pc' = "dup_write"
    /\ UNCHANGED <<fs0, watermark_text, input_files, exclude_list, file_list,
                   watermark_file_path, idx, new_file_path, page_count,
                   output, error, log, trace, tested, cleaned,
                   output_file_path>>

\* duplicate_watermark(watermark_file_path, page_count), lines 68-76, returns
DupCall ==
    /\ pc = "dup_write"
    /\ \E r \in duplicate_watermark_write(fs, watermark_file_path, page_count,
                                           tmp_watermark_file_path) :
          /\ r.err = ""
          /\ fs' = r.fs
    /\ pc' = "dup_done"
    /\ UNCHANGED <<fs0, watermark_text, input_files, exclude_list, file_list,
                   watermark_file_path, idx, new_file_path, page_count,
                   tmp_watermark_file_path, output, error, log, trace, tested,
                   cleaned, output_file_path>>

\* duplicate_watermark(watermark_file_path, page_count), lines 68-76, raises
DupCallFail ==
    /\ pc = "dup_write"
    /\ \E r \in duplicate_watermark_write(fs, watermark_file_path, page_count,
                                           tmp_watermark_file_path) :
          /\ r.err # ""
          /\ fs' = r.fs
          /\ error' = r.err
    /\ pc' = "error"
    /\ UNCHANGED <<fs0, watermark_text, input_files, exclude_list, file_list,
                   watermark_file_path, idx, new_file_path, page_count,
                   tmp_watermark_file_path, output, log, trace, tested, cleaned, output_file_path>>

NextDup ==
    \/ DupPath
    \/ DupCall
    \/ DupCallFail

SpecDup == InitDup /\ [][NextDup]_vars

-----------------------------------------------------------------------------
(* create_watermark called directly, with and without an output_file_path *)

InitCreate ==
    /\ \E pre \in SUBSET PrePaths :
          /\ Cardinality(pre) <= MaxPre
          /\ fs = [p \in pre |-> Pdf(<<OldPage>>)] @@ (OldFile :> Pdf(<<OldPage>>))
    /\ fs0 = fs
    /\ watermark_text \in Texts
    /\ input_files = <<>>
    /\ exclude_list = {}
    /\ file_list = <<>>
    /\ watermark_file_path = NoPath
    /\ pc = "create"
    /\ idx = 1
    /\ new_file_path = NoPath
    /\ page_count = 0
    /\ tmp_watermark_file_path = NoPath
    /\ output = <<>>
    /\ error = ""
    /\ log = <<>>
    /\ trace = <<>>
    /\ tested = <<>>
    /\ cleaned = FALSE
    /\ output_file_path \in GivenPaths \ {WmFixture}

\* create_watermark(watermark_text, output_file_path), lines 31-37
CreatePath ==
    /\ pc = "create"
    /\ \E r \in create_watermark_path(fs, watermark_text, output_file_path) :
          /\ r.err = ""
          /\ fs' = r.fs
          /\ watermark_file_path' = r.path
    /\ pc' = "save"
    /\ UNCHANGED <<fs0, watermark_text, input_files, exclude_list, file_list,
                   idx, new_file_path, page_count, tmp_watermark_file_path,
                   output, error, log, trace, tested, cleaned,
                   output_file_path>>

\* create_watermark(watermark_text, output_file_path) raises at line 31 or 35
CreateFail ==
    /\ pc = "create"
    /\ \E r \in create_watermark_path(fs, watermark_text, output_file_path) :
          /\ r.err # ""
          /\ fs' = r.fs
          /\ error' = r.err
    /\ pc' = "error"
    /\ UNCHANGED <<fs0, watermark_text, input_files, exclude_list, file_list,
                   watermark_file_path, idx, new_file_path, page_count,
                   tmp_watermark_file_path, output, log, trace, tested, cleaned,
                   output_file_path>>

\* create_watermark(watermark_text, output_file_path), lines 39-45, returns
CreateSave ==
    /\ pc = "save"
    /\ fs' = create_watermark_save(fs, watermark_text, watermark_file_path)
    /\ pc' = "create_done"
    /\ UNCHANGED <<fs0, watermark_text, input_files, exclude_list, file_list,
                   watermark_file_path, idx, new_file_path, page_count,
                   tmp_watermark_file_path, output, error, log, trace, tested,
                   cleaned, output_file_path>>

NextCreate ==
    \/ CreatePath
    \/ CreateFail
    \/ CreateSave

SpecCreate == InitCreate /\ [][NextCreate]_vars

-----------------------------------------------------------------------------
(* ensure_new_file called directly, on any path in any directory *)

\* the paths ensure_new_file is called on: a name with the suffix ".pdf", a
\* name that ends with ".", a name without ".", the name ".pdf" and a name
\* that begins with "."
EnsureArgs ==
    {PdfPath("e", "a_watermarked"),
     Path("e", <<"a", ".">>),
     Path("e", <<"a">>),
     Path("e", <<".", "pdf">>),
     Path("e", <<".", ".", "pdf">>)}

\* the paths at which an entry may exist in the directory: the arguments,
\* names with one index and names with several
EnsureEntries ==
    EnsureArgs \cup
    {PdfPath("e", "a_watermarked_1"),
     PdfPath("e", "a_watermarked_2"),
     PdfPath("e", "a_watermarked_1_2"),
     Path("e", <<"a", ".", "_1">>),
     Path("e", <<"a", ".", "_1_2">>),
     Path("e", <<"a_2", ".", "_1">>),
     Path("e", <<"a_1">>),
     Path("e", <<"a_1_2">>),
     Path("e", <<".", "pdf_1">>),
     Path("e", <<".", "_1", ".", "pdf">>)}

\* where the symbolic links of the directory lead: nothing exists there
EnsureTarget == Path("e", <<"t">>)

InitEnsure ==
    /\ \E S \in SUBSET EnsureEntries :
          /\ Cardinality(S) <= MaxEntries
          /\ \E lnk \in SUBSET S :
                /\ Cardinality(lnk) <= 1
                /\ fs = [p \in S |-> IF p \in lnk THEN Link(EnsureTarget)
                                     ELSE Pdf(<<OldPage>>)]
    /\ fs0 = fs
    /\ watermark_text = <<>>
    /\ input_files = <<>>
    /\ exclude_list = {}
    /\ file_list = <<>>
    /\ watermark_file_path = NoPath
    /\ pc = "ens_call"
    /\ idx = 1
    /\ new_file_path \in EnsureArgs
    /\ page_count = 0
    /\ tmp_watermark_file_path = NoPath
    /\ output = <<>>
    /\ error = ""
    /\ log = <<>>
    /\ trace = <<>>
    /\ tested = <<>>
    /\ cleaned = FALSE
    /\ output_file_path = NoPath

\* new_file_path = ensure_new_file(new_file_path)
EnsureCall ==
    /\ pc = "ens_call"
    /\ LET r == ensure_new_file(fs, new_file_path)
       IN  /\ new_file_path' = r.path
           /\ tested' = r.tested
    /\ pc' = "ens_done"
    /\ UNCHANGED <<fs, fs0, watermark_text, input_files, exclude_list, file_list,
                   watermark_file_path, idx, page_count,
                   tmp_watermark_file_path, output, error, log, trace, cleaned, output_file_path>>

NextEnsure == EnsureCall

SpecEnsure == InitEnsure /\ [][NextEnsure]_vars

-----------------------------------------------------------------------------
(* Properties *)

Range(s) == {s[j] : j \in 1..Len(s)}

\* the files the run created outside the temporary directory
NewOutputs == {p \in DOMAIN fs \ DOMAIN fs0 : p.parent # TempDir}

\* the files the run created in the temporary directory
NewTemps == {p \in DOMAIN fs \ DOMAIN fs0 : p.parent = TempDir}

\* the inputs (positions in file_list) whose output has been written
Written == {j \in 1..Len(trace) : trace[j].step = "write"}

\* the input add_watermark was last called on
CurrentInput == file_list[idx]

\* p is the temporary file the running call has created empty with mkstemp
\* and is about to fill: the watermark in create_watermark, the replicated
\* watermark in duplicate_watermark
OwnTemp(p) ==
    /\ fs[p] = Empty
    /\ p \notin DOMAIN fs0
    /\ p.parent = TempDir
    /\ \/ pc = "save" /\ p = watermark_file_path
       \/ pc = "duplicate" /\ p = tmp_watermark_file_path

\* C1 as stated: no step of the program writes to or removes a path that
\* exists, every entry present before a step is present with the same
\* content after it, and between two inputs the files the run has added,
\* the watermark aside, are one per processed input.
C1_NeverOverwrites ==
    [][TempCleanup \/
       /\ \A p \in DOMAIN fs : p \in DOMAIN fs' /\ fs'[p] = fs[p]
       /\ (pc' \in {"loop", "done"} /\ ~cleaned') =>
             Cardinality((DOMAIN fs' \ DOMAIN fs0) \ {watermark_file_path'})
               = Cardinality(Written')]_vars

\* C1 amended: no step of the program removes an entry, and the only
\* existing path a step writes to is the empty temporary file the running
\* call has just created with mkstemp: every file and link present before
\* the run and every output written earlier is present with the same
\* content after every step.  Between two inputs the files the run has
\* added are the watermark (until the operating system removes it) and, per
\* processed input, exactly two: one replicated watermark in the temporary
\* directory and one output outside it.
C1_ExistingUntouched ==
    [][TempCleanup \/
       /\ \A p \in DOMAIN fs :
             /\ p \in DOMAIN fs'
             /\ (fs'[p] # fs[p] => OwnTemp(p))
       /\ pc' \in {"loop", "done"} =>
             LET watermarks == IF cleaned' THEN 0 ELSE 1
             IN  /\ Cardinality(NewOutputs') = Cardinality(Written')
                 /\ Cardinality(NewTemps') = watermarks + Cardinality(Written')
                 /\ Cardinality(DOMAIN fs' \ DOMAIN fs0)
                      = watermarks + 2 * Cardinality(Written')]_vars

\* C1 witness: d/a.pdf processed twice with no earlier output: the run ends
\* with a_watermarked.pdf and a_watermarked_1.pdf, both new, and with the
\* watermark and two replicated watermarks in the temporary directory.
C1_Witness ==
    /\ pc = "done"
    /\ ~cleaned
    /\ file_list = <<PdfPath("d", "a"), PdfPath("d", "a")>>
    /\ NewOutputs = {PdfPath("d", "a_watermarked"), PdfPath("d", "a_watermarked_1")}
    /\ Cardinality(NewTemps) = 3

\* C1 witness: the desired path is a symbolic link that leads nowhere: the
\* output is created where the link leads, the link stays as it is.
C1_WitnessLink ==
    /\ pc = "done"
    /\ new_file_path \in LinkPaths
    /\ fs[new_file_path] = Link(LinkTarget)
    /\ NewOutputs = {LinkTarget}

\* C2: when ensure_new_file has returned, the filesystem is as it was, there
\* is no entry at the returned path, and the returned path is the argument
\* if there was no entry at the argument.
C2_ResolveIsNew ==
    pc = "ens_done" =>
       /\ fs = fs0
       /\ new_file_path \notin DOMAIN fs
       /\ (tested[1] \notin DOMAIN fs0 => new_file_path = tested[1])

\* what holds of ensure_new_file in place of C2: the filesystem is as it
\* was, Path.exists() is False for the returned path, and the returned path
\* is the argument if Path.exists() was False for the argument
EnsureReturnsUnused ==
    pc = "ens_done" =>
       /\ fs = fs0
       /\ ~Exists(fs, new_file_path)
       /\ (~Exists(fs0, tested[1]) => new_file_path = tested[1])

\* the desired path with the single index n, the desired path itself for 0
Indexed(file_path, n) == IF n = 0 THEN file_path ELSE WithIndex(file_path, n)

\* C3: the resolved output path is the desired path with the single index k,
\* for the least k >= 0 such that the desired path with index k (the path
\* itself for k = 0) does not exist.
C3_SingleIndex ==
    pc = "open" =>
      LET want == DesiredPath(CurrentInput)
          k == CHOOSE n \in 0..Cardinality(DOMAIN fs) :
                 /\ ~Exists(fs, Indexed(want, n))
                 /\ \A m \in 0..(n - 1) : Exists(fs, Indexed(want, m))
      IN  new_file_path = Indexed(want, k)

\* C4: once create_watermark has run, a text of 28 characters or more has
\* ended the run with an error before any file was created or any input was
\* processed, and a shorter text has produced exactly one new file, a
\* one-page watermark document (which is there until the operating system
\* removes it).
C4_LengthCheck ==
    pc \notin {"parse", "create", "save"} =>
      IF Len(watermark_text) >= MAX_TEXT_LENGTH
      THEN /\ pc = "error"
           /\ fs = fs0
           /\ trace = <<>>
      ELSE /\ watermark_file_path # NoPath
           /\ ~Exists(fs0, watermark_file_path)
           /\ ~cleaned =>
                /\ Exists(fs, watermark_file_path)
                /\ fs[watermark_file_path].kind = "pdf"
                /\ Len(fs[watermark_file_path].pages) = 1
                /\ (log = <<>> => DOMAIN fs = DOMAIN fs0 \cup {watermark_file_path})

\* C5: when add_watermark has returned for an input of P pages, the output
\* file has P pages, page i being input page i with the watermark text
\* composited onto it; the output path is not the input path and the input
\* file is unchanged.
C5_MergedOutput ==
    (pc \in {"loop", "done"} /\ idx > 1) =>
      LET inp == file_list[idx - 1]
          src == fs0[inp].pages
          out == Read(fs, new_file_path)
      IN  /\ Exists(fs, new_file_path)
          /\ out.kind = "pdf"
          /\ Len(out.pages) = Len(src)
          /\ \A j \in 1..Len(src) :
               /\ out.pages[j].doc = src[j].doc
               /\ out.pages[j].no = src[j].no
               /\ out.pages[j].marks = src[j].marks \o <<Join(watermark_text)>>
          /\ new_file_path # inp
          /\ Real(fs, new_file_path) # inp
          /\ fs[inp] = fs0[inp]

\* C5 witness: a 2-page input, then a 0-page input, both written.
C5_Witness ==
    /\ pc = "done"
    /\ file_list = <<PdfPath("d", "a"), PdfPath("d", "z")>>
    /\ Len(fs[PdfPath("d", "a_watermarked")].pages) = 2
    /\ new_file_path = PdfPath("d", "z_watermarked")
    /\ fs[new_file_path] = Pdf(<<>>)

\* the output path of a direct call is the path of the watermark itself
SamePath == output_file_path # NoPath
            /\ correct_pdf_path(output_file_path) = watermark_file_path

DuplicatedElsewhere ==
    /\ pc = "dup_done" =>
         LET src == fs0[watermark_file_path].pages
             out == fs[tmp_watermark_file_path]
         IN  /\ out.kind = "pdf"
             /\ Len(out.pages) = page_count
             /\ \A j \in 1..page_count : out.pages[j] = src[1]
             /\ IF output_file_path = NoPath
                THEN /\ ~Exists(fs0, tmp_watermark_file_path)
                     /\ tmp_watermark_file_path.parent = TempDir
                ELSE tmp_watermark_file_path = correct_pdf_path(output_file_path)
             /\ DOMAIN fs = DOMAIN fs0 \cup {tmp_watermark_file_path}
             /\ \A p \in DOMAIN fs0 \ {tmp_watermark_file_path} : fs[p] = fs0[p]
    /\ pc = "error" =>
         \/ /\ Len(fs0[watermark_file_path].pages) = 0
            /\ \A p \in DOMAIN fs0 : p \in DOMAIN fs /\ fs[p] = fs0[p]
         \/ /\ SamePath
            /\ page_count >= 1
            /\ fs[watermark_file_path] = Empty
            /\ \A p \in DOMAIN fs0 \ {watermark_file_path} :
                  p \in DOMAIN fs /\ fs[p] = fs0[p]
    /\ (pc \in {"dup_done", "error"} /\ ~SamePath) =>
         (pc = "error" <=> Len(fs0[watermark_file_path].pages) = 0)

\* three copies of the first page of a two-page source, written to the
\* output path that was given, with the suffix ".pdf".
C6_Witness ==
    /\ pc = "dup_done"
    /\ output_file_path = Path("e", <<"out", ".", "txt">>)
    /\ tmp_watermark_file_path = PdfPath("e", "out")
    /\ page_count = 3
    /\ Len(fs0[watermark_file_path].pages) = 2
    /\ fs0[watermark_file_path].pages[1] # fs0[watermark_file_path].pages[2]

\* n = 0: a document without pages is written to a temporary file.
C6_WitnessZero ==
    /\ pc = "dup_done"
    /\ output_file_path = NoPath
    /\ page_count = 0
    /\ fs[tmp_watermark_file_path] = Pdf(<<>>)

\* the copies replace an existing file.
C6_WitnessReplace ==
    /\ pc = "dup_done"
    /\ tmp_watermark_file_path = OldFile
    /\ page_count = 2
    /\ fs[OldFile] # fs0[OldFile]

\* the output is the watermark itself: the call has raised and the
\* watermark is empty.
C6_WitnessSame ==
    /\ pc = "error"
    /\ SamePath
    /\ Len(fs0[watermark_file_path].pages) >= 1
    /\ fs[watermark_file_path] = Empty

\* create_watermark called directly: a text of 28 characters or more raises
\* before anything is written; otherwise, with an output_file_path, the one
\* page is written to that path with the suffix ".pdf", a text with a path
\* separator included, and nothing else is created or changed
CreateWritesOnePage ==
    /\ (pc = "error" /\ Len(watermark_text) >= MAX_TEXT_LENGTH) => fs = fs0
    /\ pc \in {"save", "create_done"} => Len(watermark_text) < MAX_TEXT_LENGTH
    /\ (pc = "create_done" /\ output_file_path # NoPath) =>
         /\ watermark_file_path = correct_pdf_path(output_file_path)
         /\ fs[watermark_file_path] = Pdf(<<WatermarkPage(watermark_text)>>)
         /\ DOMAIN fs = DOMAIN fs0 \cup {watermark_file_path}
         /\ \A p \in DOMAIN fs0 \ {watermark_file_path} : fs[p] = fs0[p]
    /\ (pc = "error" /\ Len(watermark_text) < MAX_TEXT_LENGTH) =>
         output_file_path = NoPath

\* how often x occurs in the sequence s
Count(s, x) == Cardinality({j \in 1..Len(s) : s[j] = x})

\* the file names of the model that end with ".pdf"
PdfNames == {".pdf", "a.pdf", "z.pdf", "c.pdf", "g.pdf", "m.pdf", "t.pdf",
             "a_watermarked.pdf", "a_watermarked_1.pdf", "a_watermarked_2.pdf",
             "a_watermarked_1_2.pdf"}

\* C7: the selected inputs are the candidates (the -f list when it is not
\* empty, else the *.pdf files of the current directory, each once) without
\* those whose file name is in the -x list; no step is ever taken for an
\* excluded file, and a run that ends normally has written exactly one
\* output per selected input.
C7_Selection ==
    /\ pc # "parse" =>
         \A p \in DOMAIN fs0 \cup Range(input_files) \cup Range(file_list) :
            Count(file_list, p) =
               IF Name(p) \in exclude_list THEN 0
               ELSE IF input_files # <<>> THEN Count(input_files, p)
               ELSE IF p \in DOMAIN fs0 /\ p.parent = cwd /\ Name(p) \in PdfNames
                    THEN 1 ELSE 0
    /\ \A j \in 1..Len(trace) : Name(trace[j].file) \notin exclude_list
    /\ pc = "done" =>
         /\ {trace[j].k : j \in Written} = 1..Len(file_list)
         /\ Cardinality(Written) = Len(file_list)
         /\ Cardinality(NewOutputs) = Len(file_list)

\* C7 witness: -f e/a.pdf d/z.pdf -x a.pdf: only d/z.pdf gets an output.
C7_Witness ==
    /\ pc = "done"
    /\ input_files = <<PdfPath("e", "a"), PdfPath("d", "z")>>
    /\ exclude_list = {"a.pdf"}
    /\ file_list = <<PdfPath("d", "z")>>
    /\ NewOutputs = {PdfPath("d", "z_watermarked")}

\* C7 witness without -f: the directory scan with a.pdf excluded selects
\* z.pdf and the file named ".pdf", and not n.txt.
C7_WitnessGlob ==
    /\ pc = "done"
    /\ input_files = <<>>
    /\ exclude_list = {"a.pdf"}
    /\ Range(file_list) = {PdfPath("d", "z"), Path("d", <<".", "pdf">>)}
    /\ NewOutputs = {PdfPath("d", "z_watermarked"),
                     Path("d", <<".", "pdf_watermarked", ".", "pdf">>)}

\* C7 witness without -f and -x: a scan of four files ends with an output
\* for each, a.pdf's under the next free name.
C7_WitnessScanAll ==
    /\ pc = "done"
    /\ input_files = <<>>
    /\ Len(file_list) = 4
    /\ NewOutputs = {PdfPath("d", "a_watermarked_1"),
                     PdfPath("d", "a_watermarked_watermarked"),
                     PdfPath("d", "z_watermarked"),
                     Path("d", <<".", "pdf_watermarked", ".", "pdf">>)}
    /\ "All done!" \in Range(log)

\* every run ends: a state that is not the end of main or an exception has a
\* next step; where the step has a choice (the order of the directory scan,
\* the random name of a temporary file), there is an outcome to choose
RunsEnd ==
    \/ pc \in {"done", "error"}
    \/ pc = "parse" /\ Select(fs, input_files, exclude_list) # {}
    \/ pc = "create" /\ create_watermark_path(fs, watermark_text, NoPath) # {}
    \/ pc = "replicate" /\ duplicate_watermark_path(fs, NoPath) # {}
    \/ pc \in {"save", "loop", "resolve", "open", "duplicate", "merge", "write"}

\* C8 as stated: whenever the output path of an input has been resolved, the
\* watermark has been replicated for that input before.
C8_ReplicateBeforeResolve ==
    \A j \in 1..Len(trace) :
       trace[j].step = "resolve" =>
          \E i \in 1..(j - 1) :
             trace[i].k = trace[j].k /\ trace[i].step = "replicate"

\* C8 amended: the steps of a run are, input after input in the order of
\* file_list, resolve, open, replicate, merge, write: each input is finished
\* before the next begins and the output path is resolved before the
\* watermark is replicated.
C8_StepOrder ==
    \A j \in 1..Len(trace) :
       /\ trace[j].k = ((j - 1) \div 5) + 1
       /\ trace[j].step =
            <<"resolve", "open", "replicate", "merge", "write">>[((j - 1) % 5) + 1]
       /\ trace[j].file = file_list[trace[j].k]

\* C8 witness: two inputs processed to the end.
C8_Witness ==
    /\ pc = "done"
    /\ Len(trace) = 10

\* C9: when an input fails to open, to replicate or to merge, the run has
\* ended in error at that input: outputs exist for exactly the inputs before
\* it, no step was taken for a later input and "All done!" was not logged.
C9_FailFast ==
    (error # "" /\ trace # <<>>) =>
       /\ pc = "error"
       /\ "All done!" \notin Range(log)
       /\ Len(log) = idx
       /\ {trace[j].k : j \in Written} = 1..(idx - 1)
       /\ Cardinality(NewOutputs) = idx - 1
       /\ \A j \in 1..Len(trace) : trace[j].k <= idx

\* C9 witness: the second input fails to merge, the first output remains.
C9_Witness ==
    /\ pc = "error"
    /\ idx = 2
    /\ trace[Len(trace)].step = "merge"
    /\ Cardinality(NewOutputs) = 1
    /\ Len(file_list) = 2

\* C9 witness: the first of two inputs does not exist.
C9_WitnessOpen ==
    /\ pc = "error"
    /\ error = "FileNotFoundError"
    /\ idx = 1
    /\ Len(file_list) = 2
    /\ NewOutputs = {}

\* C9 witness: the watermark file is gone when the second input is
\* replicated: duplicate_watermark raises, the first output remains.
C9_WitnessReplicate ==
    /\ pc = "error"
    /\ error = "FileNotFoundError"
    /\ idx = 2
    /\ trace[Len(trace)].step = "replicate"
    /\ Cardinality(NewOutputs) = 1
    /\ Len(file_list) = 2

\* C10: the paths ensure_new_file tests are pairwise distinct entries-to-be
\* of one directory; all but the last exist and the last, which it returns,
\* does not; so with N entries in that directory it returns after at most
\* N + 1 tests.
C10_BoundedTests ==
    pc \in {"open", "ens_done"} =>
       LET n == Len(tested)
           dir == {p \in DOMAIN fs : p.parent = tested[1].parent}
       IN  /\ n >= 1
           /\ \A a, b \in 1..n : a # b => tested[a] # tested[b]
           /\ \A a \in 1..n : tested[a].parent = tested[1].parent
           /\ \A a \in 1..(n - 1) : Exists(fs, tested[a])
           /\ tested[n] = new_file_path
           /\ ~Exists(fs, tested[n])
           /\ n <= Cardinality(dir) + 1

\* C10 witness: called on the name "a." with "a." and "a._1" taken, it has
\* tested "a.", "a._1" and "a_2._1" and has returned the third.
C10_Witness ==
    /\ pc = "ens_done"
    /\ tested = <<Path("e", <<"a", ".">>),
                  Path("e", <<"a", ".", "_1">>),
                  Path("e", <<"a_2", ".", "_1">>)>>
    /\ new_file_path = tested[3]

\* C10 witness: three tests of names with the suffix ".pdf".
C10_WitnessPdf ==
    /\ pc = "ens_done"
    /\ tested = <<PdfPath("e", "a_watermarked"),
                  PdfPath("e", "a_watermarked_1"),
                  PdfPath("e", "a_watermarked_1_2")>>

====
